---- MODULE Spec2Model ----
(***************************************************************************)
(* Daily impulse generator (scripts/generate-impulse.js and its API.Bible  *)
(* variant): the reference resolver, the verse filter of the text fetcher  *)
(* and the run of main(), as a state machine.                              *)
(*                                                                         *)
(* Strings are sequences of one-character strings, so that the regular     *)
(* expressions of the source are matched character by character.  A        *)
(* character the module cannot write inside a TLA+ string is an atom       *)
(* ("ndash" is U+2013).  null is the JavaScript null; a value that may be  *)
(* null is compared with null before any of its fields is read.            *)
(***************************************************************************)
EXTENDS Integers, Sequences, FiniteSets, TLC

VARIABLES
  variant,        \* which file runs: "bolls" (generate-impulse.js) or "apibible"
  API_KEY,        \* process.env.MAGISTERIUM_API_KEY is set (truthy)
  API_BIBLE_KEY,  \* process.env.API_BIBLE_KEY is set (truthy); read by "apibible" only
  pc,             \* position of main()
  exitCode,       \* -1 while the process runs, then the exit status
  usccb,          \* the reference-source response fetchGospelReference received
  gospel,         \* main's gospel: null or {reference, referenceDisplay, title}
  parsed,         \* fetchAllBibleTexts' parsed / passageId: null or the resolver's result
  results,        \* fetchAllBibleTexts' results map (domain: the languages assigned so far)
  resp,           \* the response of the latest per-language call (text or reflection)
  gospelTexts,    \* main's gospelTexts: null or the results map
  impulses,       \* main's impulses map (domain: the languages assigned so far)
  files,          \* impulses/<date>.json and impulses/latest.json
  netLog,         \* every network request issued so far, in order
  input,          \* argument of the function under test (function-level specifications)
  output          \* its return value

vars == <<variant, API_KEY, API_BIBLE_KEY, pc, exitCode, usccb, gospel, parsed,
          results, resp, gospelTexts, impulses, files, netLog, input, output>>

null == [null |-> TRUE]

----------------------------------------------------------------------------
(* Characters and the string helpers the source uses.                      *)

UpperSeq == <<"A","B","C","D","E","F","G","H","I","J","K","L","M",
              "N","O","P","Q","R","S","T","U","V","W","X","Y","Z">>
LowerSeq == <<"a","b","c","d","e","f","g","h","i","j","k","l","m",
              "n","o","p","q","r","s","t","u","v","w","x","y","z">>
DigitSeq == <<"0","1","2","3","4","5","6","7","8","9">>

Range(s) == {s[i] : i \in DOMAIN s}

Letters == Range(UpperSeq) \cup Range(LowerSeq)     \* [A-Za-z]
Digits == Range(DigitSeq)                           \* \d, [0-9]
WhiteSpace == {" ", "\t", "\n", "\r"}               \* \s
Dashes == {"-", "ndash"}                            \* [-–]

\* String.prototype.toLowerCase, one character.
LowerChar(c) ==
  IF \E i \in DOMAIN UpperSeq : UpperSeq[i] = c
  THEN LowerSeq[CHOOSE i \in DOMAIN UpperSeq : UpperSeq[i] = c]
  ELSE c

toLowerCase(s) == [i \in DOMAIN s |-> LowerChar(s[i])]

\* The first index >= i of s whose character is not in set (Len(s)+1 if none):
\* the end of a greedy run of a character class.
RECURSIVE SkipSet(_, _, _)
SkipSet(s, i, set) ==
  IF i <= Len(s) /\ s[i] \in set THEN SkipSet(s, i + 1, set) ELSE i

\* The last index <= i of s whose character is not in set (0 if none).
RECURSIVE SkipSetBack(_, _, _)
SkipSetBack(s, i, set) ==
  IF i >= 1 /\ s[i] \in set THEN SkipSetBack(s, i - 1, set) ELSE i

\* String.prototype.trim.
trim(s) ==
  LET a == SkipSet(s, 1, WhiteSpace)
      b == SkipSetBack(s, Len(s), WhiteSpace)
  IN IF a > b THEN <<>> ELSE SubSeq(s, a, b)

\* s.replace(/\s+/g, ' ') from index i on.
RECURSIVE CollapseWhiteSpace(_, _)
CollapseWhiteSpace(s, i) ==
  IF i > Len(s) THEN <<>>
  ELSE IF s[i] \in WhiteSpace
       THEN <<" ">> \o CollapseWhiteSpace(s, SkipSet(s, i, WhiteSpace))
       ELSE <<s[i]>> \o CollapseWhiteSpace(s, i + 1)

\* reference.replace(/\s+/g, ' ').trim()
Normalize(reference) == trim(CollapseWhiteSpace(reference, 1))

\* s.replace(/x/g, '') for one character x.
RemoveChar(s, x) == SelectSeq(s, LAMBDA c : c # x)

\* s.replace(/x/, y), the g flag forgotten: only the first x is replaced.
ReplaceFirstChar(s, x, y) ==
  [i \in DOMAIN s |-> IF s[i] = x /\ (\A j \in 1..(i - 1) : s[j] # x) THEN y ELSE s[i]]

\* s.replace(/x/g, y) for one character x.
ReplaceChar(s, x, y) == [i \in DOMAIN s |-> IF s[i] = x THEN y ELSE s[i]]

\* parseInt(ds, 10) of a string of decimal digits.
DigitValue(c) == (CHOOSE i \in DOMAIN DigitSeq : DigitSeq[i] = c) - 1
RECURSIVE parseInt(_)
parseInt(ds) ==
  IF Len(ds) = 0 THEN 0
  ELSE 10 * parseInt(SubSeq(ds, 1, Len(ds) - 1)) + DigitValue(ds[Len(ds)])

\* String(n) of a non-negative integer.
RECURSIVE ToDigits(_)
ToDigits(n) ==
  IF n < 10 THEN <<DigitSeq[n + 1]>>
  ELSE ToDigits(n \div 10) \o <<DigitSeq[(n % 10) + 1]>>

\* a.join(sep) of a sequence of strings.
RECURSIVE Join(_, _)
Join(a, sep) ==
  IF Len(a) = 0 THEN <<>>
  ELSE IF Len(a) = 1 THEN a[1]
  ELSE a[1] \o sep \o Join(Tail(a), sep)

----------------------------------------------------------------------------
(* Property lookup on an object literal.  BOOK_TO_NUMBER[key] reads an own *)
(* property or, failing that, one inherited from Object.prototype; of the  *)
(* inherited names only "constructor" is spelled with lower-case letters   *)
(* alone, so it is the only one a book token can name.                     *)

ObjectPrototypeKeys == { <<"c","o","n","s","t","r","u","c","t","o","r">> }

\* A JavaScript value of a lookup: a number, a string, a function or undefined.
JsNumber(n) == [type |-> "number", value |-> n]
JsFunction == [type |-> "function", value |-> 0]
JsUndefined == [type |-> "undefined", value |-> 0]

\* !v is false
Truthy(v) == v.type = "function" \/ (v.type = "number" /\ v.value # 0)

\* const BOOK_TO_NUMBER: lower-case English book name -> Bolls.life book number.
BOOK_TO_NUMBER ==
  (<<"g","e","n","e","s","i","s">> :> 1)
  @@ (<<"e","x","o","d","u","s">> :> 2)
  @@ (<<"l","e","v","i","t","i","c","u","s">> :> 3)
  @@ (<<"n","u","m","b","e","r","s">> :> 4)
  @@ (<<"d","e","u","t","e","r","o","n","o","m","y">> :> 5)
  @@ (<<"j","o","s","h","u","a">> :> 6)
  @@ (<<"j","u","d","g","e","s">> :> 7)
  @@ (<<"r","u","t","h">> :> 8)
  @@ (<<"1"," ","s","a","m","u","e","l">> :> 9)
  @@ (<<"2"," ","s","a","m","u","e","l">> :> 10)
  @@ (<<"1"," ","k","i","n","g","s">> :> 11)
  @@ (<<"2"," ","k","i","n","g","s">> :> 12)
  @@ (<<"1"," ","c","h","r","o","n","i","c","l","e","s">> :> 13)
  @@ (<<"2"," ","c","h","r","o","n","i","c","l","e","s">> :> 14)
  @@ (<<"e","z","r","a">> :> 15)
  @@ (<<"n","e","h","e","m","i","a","h">> :> 16)
  @@ (<<"e","s","t","h","e","r">> :> 17)
  @@ (<<"j","o","b">> :> 18)
  @@ (<<"p","s","a","l","m","s">> :> 19)
  @@ (<<"p","s","a","l","m">> :> 19)
  @@ (<<"p","r","o","v","e","r","b","s">> :> 20)
  @@ (<<"e","c","c","l","e","s","i","a","s","t","e","s">> :> 21)
  @@ (<<"s","o","n","g"," ","o","f"," ","s","o","l","o","m","o","n">> :> 22)
  @@ (<<"s","o","n","g"," ","o","f"," ","s","o","n","g","s">> :> 22)
  @@ (<<"i","s","a","i","a","h">> :> 23)
  @@ (<<"j","e","r","e","m","i","a","h">> :> 24)
  @@ (<<"l","a","m","e","n","t","a","t","i","o","n","s">> :> 25)
  @@ (<<"e","z","e","k","i","e","l">> :> 26)
  @@ (<<"d","a","n","i","e","l">> :> 27)
  @@ (<<"h","o","s","e","a">> :> 28)
  @@ (<<"j","o","e","l">> :> 29)
  @@ (<<"a","m","o","s">> :> 30)
  @@ (<<"o","b","a","d","i","a","h">> :> 31)
  @@ (<<"j","o","n","a","h">> :> 32)
  @@ (<<"m","i","c","a","h">> :> 33)
  @@ (<<"n","a","h","u","m">> :> 34)
  @@ (<<"h","a","b","a","k","k","u","k">> :> 35)
  @@ (<<"z","e","p","h","a","n","i","a","h">> :> 36)
  @@ (<<"h","a","g","g","a","i">> :> 37)
  @@ (<<"z","e","c","h","a","r","i","a","h">> :> 38)
  @@ (<<"m","a","l","a","c","h","i">> :> 39)
  @@ (<<"m","a","t","t","h","e","w">> :> 40)
  @@ (<<"m","a","t","t">> :> 40)
  @@ (<<"m","t">> :> 40)
  @@ (<<"m","a","r","k">> :> 41)
  @@ (<<"m","k">> :> 41)
  @@ (<<"m","r","k">> :> 41)
  @@ (<<"l","u","k","e">> :> 42)
  @@ (<<"l","k">> :> 42)
  @@ (<<"l","u","k">> :> 42)
  @@ (<<"j","o","h","n">> :> 43)
  @@ (<<"j","n">> :> 43)
  @@ (<<"j","o","h">> :> 43)
  @@ (<<"a","c","t","s">> :> 44)
  @@ (<<"r","o","m","a","n","s">> :> 45)
  @@ (<<"1"," ","c","o","r","i","n","t","h","i","a","n","s">> :> 46)
  @@ (<<"2"," ","c","o","r","i","n","t","h","i","a","n","s">> :> 47)
  @@ (<<"g","a","l","a","t","i","a","n","s">> :> 48)
  @@ (<<"e","p","h","e","s","i","a","n","s">> :> 49)
  @@ (<<"p","h","i","l","i","p","p","i","a","n","s">> :> 50)
  @@ (<<"c","o","l","o","s","s","i","a","n","s">> :> 51)
  @@ (<<"1"," ","t","h","e","s","s","a","l","o","n","i","a","n","s">> :> 52)
  @@ (<<"2"," ","t","h","e","s","s","a","l","o","n","i","a","n","s">> :> 53)
  @@ (<<"1"," ","t","i","m","o","t","h","y">> :> 54)
  @@ (<<"2"," ","t","i","m","o","t","h","y">> :> 55)
  @@ (<<"t","i","t","u","s">> :> 56)
  @@ (<<"p","h","i","l","e","m","o","n">> :> 57)
  @@ (<<"h","e","b","r","e","w","s">> :> 58)
  @@ (<<"j","a","m","e","s">> :> 59)
  @@ (<<"1"," ","p","e","t","e","r">> :> 60)
  @@ (<<"2"," ","p","e","t","e","r">> :> 61)
  @@ (<<"1"," ","j","o","h","n">> :> 62)
  @@ (<<"2"," ","j","o","h","n">> :> 63)
  @@ (<<"3"," ","j","o","h","n">> :> 64)
  @@ (<<"j","u","d","e">> :> 65)
  @@ (<<"r","e","v","e","l","a","t","i","o","n">> :> 66)

\* const BOOK_TO_OSIS (API.Bible variant): lower-case English book name -> OSIS code.
BOOK_TO_OSIS ==
  (<<"g","e","n","e","s","i","s">> :> <<"G","E","N">>)
  @@ (<<"e","x","o","d","u","s">> :> <<"E","X","O">>)
  @@ (<<"l","e","v","i","t","i","c","u","s">> :> <<"L","E","V">>)
  @@ (<<"n","u","m","b","e","r","s">> :> <<"N","U","M">>)
  @@ (<<"d","e","u","t","e","r","o","n","o","m","y">> :> <<"D","E","U">>)
  @@ (<<"j","o","s","h","u","a">> :> <<"J","O","S">>)
  @@ (<<"j","u","d","g","e","s">> :> <<"J","D","G">>)
  @@ (<<"r","u","t","h">> :> <<"R","U","T">>)
  @@ (<<"1"," ","s","a","m","u","e","l">> :> <<"1","S","A">>)
  @@ (<<"2"," ","s","a","m","u","e","l">> :> <<"2","S","A">>)
  @@ (<<"1"," ","k","i","n","g","s">> :> <<"1","K","I">>)
  @@ (<<"2"," ","k","i","n","g","s">> :> <<"2","K","I">>)
  @@ (<<"1"," ","c","h","r","o","n","i","c","l","e","s">> :> <<"1","C","H">>)
  @@ (<<"2"," ","c","h","r","o","n","i","c","l","e","s">> :> <<"2","C","H">>)
  @@ (<<"e","z","r","a">> :> <<"E","Z","R">>)
  @@ (<<"n","e","h","e","m","i","a","h">> :> <<"N","E","H">>)
  @@ (<<"t","o","b","i","t">> :> <<"T","O","B">>)
  @@ (<<"j","u","d","i","t","h">> :> <<"J","D","T">>)
  @@ (<<"e","s","t","h","e","r">> :> <<"E","S","T">>)
  @@ (<<"1"," ","m","a","c","c","a","b","e","e","s">> :> <<"1","M","A">>)
  @@ (<<"2"," ","m","a","c","c","a","b","e","e","s">> :> <<"2","M","A">>)
  @@ (<<"j","o","b">> :> <<"J","O","B">>)
  @@ (<<"p","s","a","l","m","s">> :> <<"P","S","A">>)
  @@ (<<"p","s","a","l","m">> :> <<"P","S","A">>)
  @@ (<<"p","r","o","v","e","r","b","s">> :> <<"P","R","O">>)
  @@ (<<"e","c","c","l","e","s","i","a","s","t","e","s">> :> <<"E","C","C">>)
  @@ (<<"s","o","n","g"," ","o","f"," ","s","o","l","o","m","o","n">> :> <<"S","N","G">>)
  @@ (<<"s","o","n","g"," ","o","f"," ","s","o","n","g","s">> :> <<"S","N","G">>)
  @@ (<<"w","i","s","d","o","m">> :> <<"W","I","S">>)
  @@ (<<"s","i","r","a","c","h">> :> <<"S","I","R">>)
  @@ (<<"e","c","c","l","e","s","i","a","s","t","i","c","u","s">> :> <<"S","I","R">>)
  @@ (<<"i","s","a","i","a","h">> :> <<"I","S","A">>)
  @@ (<<"j","e","r","e","m","i","a","h">> :> <<"J","E","R">>)
  @@ (<<"l","a","m","e","n","t","a","t","i","o","n","s">> :> <<"L","A","M">>)
  @@ (<<"b","a","r","u","c","h">> :> <<"B","A","R">>)
  @@ (<<"e","z","e","k","i","e","l">> :> <<"E","Z","K">>)
  @@ (<<"d","a","n","i","e","l">> :> <<"D","A","N">>)
  @@ (<<"h","o","s","e","a">> :> <<"H","O","S">>)
  @@ (<<"j","o","e","l">> :> <<"J","O","L">>)
  @@ (<<"a","m","o","s">> :> <<"A","M","O">>)
  @@ (<<"o","b","a","d","i","a","h">> :> <<"O","B","A">>)
  @@ (<<"j","o","n","a","h">> :> <<"J","O","N">>)
  @@ (<<"m","i","c","a","h">> :> <<"M","I","C">>)
  @@ (<<"n","a","h","u","m">> :> <<"N","A","M">>)
  @@ (<<"h","a","b","a","k","k","u","k">> :> <<"H","A","B">>)
  @@ (<<"z","e","p","h","a","n","i","a","h">> :> <<"Z","E","P">>)
  @@ (<<"h","a","g","g","a","i">> :> <<"H","A","G">>)
  @@ (<<"z","e","c","h","a","r","i","a","h">> :> <<"Z","E","C">>)
  @@ (<<"m","a","l","a","c","h","i">> :> <<"M","A","L">>)
  @@ (<<"m","a","t","t","h","e","w">> :> <<"M","A","T">>)
  @@ (<<"m","a","t","t">> :> <<"M","A","T">>)
  @@ (<<"m","t">> :> <<"M","A","T">>)
  @@ (<<"m","a","r","k">> :> <<"M","R","K">>)
  @@ (<<"m","k">> :> <<"M","R","K">>)
  @@ (<<"m","r","k">> :> <<"M","R","K">>)
  @@ (<<"l","u","k","e">> :> <<"L","U","K">>)
  @@ (<<"l","k">> :> <<"L","U","K">>)
  @@ (<<"l","u","k">> :> <<"L","U","K">>)
  @@ (<<"j","o","h","n">> :> <<"J","H","N">>)
  @@ (<<"j","n">> :> <<"J","H","N">>)
  @@ (<<"j","o","h">> :> <<"J","H","N">>)
  @@ (<<"a","c","t","s">> :> <<"A","C","T">>)
  @@ (<<"r","o","m","a","n","s">> :> <<"R","O","M">>)
  @@ (<<"1"," ","c","o","r","i","n","t","h","i","a","n","s">> :> <<"1","C","O">>)
  @@ (<<"2"," ","c","o","r","i","n","t","h","i","a","n","s">> :> <<"2","C","O">>)
  @@ (<<"g","a","l","a","t","i","a","n","s">> :> <<"G","A","L">>)
  @@ (<<"e","p","h","e","s","i","a","n","s">> :> <<"E","P","H">>)
  @@ (<<"p","h","i","l","i","p","p","i","a","n","s">> :> <<"P","H","P">>)
  @@ (<<"c","o","l","o","s","s","i","a","n","s">> :> <<"C","O","L">>)
  @@ (<<"1"," ","t","h","e","s","s","a","l","o","n","i","a","n","s">> :> <<"1","T","H">>)
  @@ (<<"2"," ","t","h","e","s","s","a","l","o","n","i","a","n","s">> :> <<"2","T","H">>)
  @@ (<<"1"," ","t","i","m","o","t","h","y">> :> <<"1","T","I">>)
  @@ (<<"2"," ","t","i","m","o","t","h","y">> :> <<"2","T","I">>)
  @@ (<<"t","i","t","u","s">> :> <<"T","I","T">>)
  @@ (<<"p","h","i","l","e","m","o","n">> :> <<"P","H","M">>)
  @@ (<<"h","e","b","r","e","w","s">> :> <<"H","E","B">>)
  @@ (<<"j","a","m","e","s">> :> <<"J","A","S">>)
  @@ (<<"1"," ","p","e","t","e","r">> :> <<"1","P","E">>)
  @@ (<<"2"," ","p","e","t","e","r">> :> <<"2","P","E">>)
  @@ (<<"1"," ","j","o","h","n">> :> <<"1","J","N">>)
  @@ (<<"2"," ","j","o","h","n">> :> <<"2","J","N">>)
  @@ (<<"3"," ","j","o","h","n">> :> <<"3","J","N">>)
  @@ (<<"j","u","d","e">> :> <<"J","U","D">>)
  @@ (<<"r","e","v","e","l","a","t","i","o","n">> :> <<"R","E","V">>)

\* const bibleBookGermanMap: lower-case Gospel name or abbreviation -> German name.
bibleBookGermanMap ==
  (<<"m","a","t","t","h","e","w">> :> <<"M","a","t","t","h","a","e","u","s">>)
  @@ (<<"m","a","r","k">> :> <<"M","a","r","k","u","s">>)
  @@ (<<"l","u","k","e">> :> <<"L","u","k","a","s">>)
  @@ (<<"j","o","h","n">> :> <<"J","o","h","a","n","n","e","s">>)
  @@ (<<"m","t">> :> <<"M","a","t","t","h","a","e","u","s">>)
  @@ (<<"m","k">> :> <<"M","a","r","k","u","s">>)
  @@ (<<"l","k">> :> <<"L","u","k","a","s">>)
  @@ (<<"j","n">> :> <<"J","o","h","a","n","n","e","s">>)
  @@ (<<"m","a","t","t">> :> <<"M","a","t","t","h","a","e","u","s">>)
  @@ (<<"m","r","k">> :> <<"M","a","r","k","u","s">>)
  @@ (<<"l","u","k">> :> <<"L","u","k","a","s">>)
  @@ (<<"j","o","h">> :> <<"J","o","h","a","n","n","e","s">>)

\* BOOK_TO_NUMBER[bookRaw]
LookupBookNumber(bookRaw) ==
  IF bookRaw \in DOMAIN BOOK_TO_NUMBER THEN JsNumber(BOOK_TO_NUMBER[bookRaw])
  ELSE IF bookRaw \in ObjectPrototypeKeys THEN JsFunction
  ELSE JsUndefined

----------------------------------------------------------------------------
(* parseReference (generate-impulse.js): the multi-range resolver.         *)

\* normalized.match(/^([1-3]?\s?[A-Za-z]+(?:\s+of\s+[A-Za-z]+)?)\s+(\d+):/):
\* <<>> when the prefix does not match, else <<[book, chapter, rest]>> with
\* rest the index after the colon.  Every quantifier is followed by a character
\* its class excludes, so the greedy match is the only one.
MatchBookChapter(n) ==
  LET p1 == IF Len(n) >= 1 /\ n[1] \in {"1", "2", "3"} THEN 2 ELSE 1
      p2 == IF p1 <= Len(n) /\ n[p1] \in WhiteSpace THEN p1 + 1 ELSE p1
      p3 == SkipSet(n, p2, Letters)
      q1 == SkipSet(n, p3, WhiteSpace)
      q2 == SkipSet(n, q1 + 2, WhiteSpace)
      q3 == SkipSet(n, q2, Letters)
      ofJoiner == /\ q1 > p3
                  /\ q1 + 1 <= Len(n)
                  /\ n[q1] = "o"
                  /\ n[q1 + 1] = "f"
                  /\ q2 > q1 + 2
                  /\ q3 > q2
      p4 == IF ofJoiner THEN q3 ELSE p3
      p5 == SkipSet(n, p4, WhiteSpace)
      p6 == SkipSet(n, p5, Digits)
  IN IF /\ p3 > p2
        /\ p5 > p4
        /\ p6 > p5
        /\ p6 <= Len(n)
        /\ n[p6] = ":"
     THEN << [book |-> SubSeq(n, 1, p4 - 1),
              chapter |-> SubSeq(n, p5, p6 - 1),
              rest |-> p6 + 1] >>
     ELSE <<>>

\* The same split on commas alone.
RECURSIVE SplitSegmentsCommaOnly(_, _, _)
SplitSegmentsCommaOnly(v, i, cur) ==
  IF i > Len(v) THEN <<cur>>
  ELSE IF v[i] = ","
       THEN <<cur>> \o SplitSegmentsCommaOnly(v, SkipSet(v, i + 1, WhiteSpace), <<>>)
       ELSE SplitSegmentsCommaOnly(v, i + 1, Append(cur, v[i]))

\* versePart.split(/[,;]\s*/), from index i on with cur the segment being read.
RECURSIVE SplitSegments(_, _, _)
SplitSegments(v, i, cur) ==
  IF i > Len(v) THEN <<cur>>
  ELSE IF v[i] \in {",", ";"}
       THEN <<cur>> \o SplitSegments(v, SkipSet(v, i + 1, WhiteSpace), <<>>)
       ELSE SplitSegments(v, i + 1, Append(cur, v[i]))

\* s.match(/^(\d+)(?:\s*[-–]\s*(\d+))?$/): <<>> when s does not match, else
\* <<[first, second]>>, second being <<>> when the optional group took no part.
MatchVerses(s) ==
  LET a == SkipSet(s, 1, Digits)
      b == SkipSet(s, a, WhiteSpace)
      c == SkipSet(s, b + 1, WhiteSpace)
      d == SkipSet(s, c, Digits)
  IN IF a = 1 THEN <<>>
     ELSE IF a > Len(s) THEN << [first |-> s, second |-> <<>>] >>
     ELSE IF b <= Len(s) /\ s[b] \in Dashes /\ d > c /\ d > Len(s)
          THEN << [first |-> SubSeq(s, 1, a - 1), second |-> SubSeq(s, c, d - 1)] >>
          ELSE <<>>

\* Lines 181-186: the range of one segment, <<>> when the segment does not match.
ParseSegment(segment) ==
  LET rangeMatch == MatchVerses(trim(segment))
  IN IF rangeMatch = <<>> THEN <<>>
     ELSE LET start == parseInt(rangeMatch[1].first)
              end == IF rangeMatch[1].second # <<>>
                     THEN parseInt(rangeMatch[1].second)
                     ELSE start
          IN << [verseStart |-> start, verseEnd |-> end] >>

\* The loop giving up at a segment that does not match: no ranges at all then.
ParseRangesStrict(segments) ==
  IF \E i \in DOMAIN segments : ParseSegment(segments[i]) = <<>> THEN <<>>
  ELSE [i \in DOMAIN segments |-> ParseSegment(segments[i])[1]]

\* The loop of lines 179-187: the ranges of the segments that match, in order.
RECURSIVE ParseRanges(_)
ParseRanges(segments) ==
  IF Len(segments) = 0 THEN <<>>
  ELSE ParseSegment(Head(segments)) \o ParseRanges(Tail(segments))

parseReference(reference) ==
  LET normalized == Normalize(reference)
      match == MatchBookChapter(normalized)
  IN IF match = <<>> \/ match[1].rest > Len(normalized) THEN null
     ELSE LET bookRaw == toLowerCase(trim(match[1].book))
              chapter == parseInt(match[1].chapter)
              versePart == trim(SubSeq(normalized, match[1].rest, Len(normalized)))
              bookNumber == LookupBookNumber(bookRaw)
              ranges == ParseRanges(SplitSegments(versePart, 1, <<>>))
          IN IF ~Truthy(bookNumber) THEN null
             ELSE IF Len(ranges) = 0 THEN null
             ELSE [bookNumber |-> bookNumber,
                   chapter |-> chapter,
                   verseStart |-> ranges[1].verseStart,
                   verseEnd |-> ranges[Len(ranges)].verseEnd,
                   ranges |-> ranges]

----------------------------------------------------------------------------
(* referenceToOsis (API.Bible variant): the single-range resolver.         *)

JsString(s) == [type |-> "string", value |-> s]

\* BOOK_TO_OSIS[bookRaw]
LookupOsisBook(bookRaw) ==
  IF bookRaw \in DOMAIN BOOK_TO_OSIS THEN JsString(BOOK_TO_OSIS[bookRaw])
  ELSE IF bookRaw \in ObjectPrototypeKeys THEN JsFunction
  ELSE JsUndefined

\* `${v}` of a looked-up value that is a string or the inherited function.
TemplateString(v) ==
  IF v.type = "function" THEN << "function Object() { [native code] }" >>
  ELSE v.value

referenceToOsis(reference) ==
  LET normalized == Normalize(reference)
      match == MatchBookChapter(normalized)
      verses == IF match = <<>> THEN <<>>
                ELSE MatchVerses(SubSeq(normalized, match[1].rest, Len(normalized)))
  IN IF match = <<>> \/ verses = <<>> THEN null
     ELSE LET bookRaw == toLowerCase(trim(match[1].book))
              chapter == match[1].chapter
              verseStart == verses[1].first
              verseEnd == IF verses[1].second # <<>> THEN verses[1].second
                          ELSE verseStart
              osisBook == LookupOsisBook(bookRaw)
              book == TemplateString(osisBook)
          IN IF osisBook.type = "undefined" THEN null
             ELSE IF verseStart = verseEnd
                  THEN [passageId |-> book \o <<".">> \o chapter \o <<".">> \o verseStart]
                  ELSE [passageId |-> book \o <<".">> \o chapter \o <<".">> \o verseStart
                                      \o <<"-">>
                                      \o book \o <<".">> \o chapter \o <<".">> \o verseEnd]

----------------------------------------------------------------------------
(* toGermanDisplayReference: the display form of a citation.               *)

\* bibleBookGermanMap[key]
LookupGermanBook(key) ==
  IF key \in DOMAIN bibleBookGermanMap THEN JsString(bibleBookGermanMap[key])
  ELSE IF key \in ObjectPrototypeKeys THEN JsFunction
  ELSE JsUndefined

\* The same with the ':' of a citation that does not match rewritten as well.
toGermanDisplayReferenceRewritingAll(reference) ==
  LET normalized == Normalize(reference)
      p1 == IF Len(normalized) >= 1 /\ normalized[1] \in {"1", "2", "3"} THEN 2 ELSE 1
      p2 == IF p1 <= Len(normalized) /\ normalized[p1] \in WhiteSpace THEN p1 + 1 ELSE p1
      p3 == SkipSet(normalized, p2, Letters \cup {"."})
      p4 == SkipSet(normalized, p3, WhiteSpace)
      match == /\ p3 > p2
               /\ p4 > p3
               /\ p4 <= Len(normalized)
               /\ normalized[p4] \in Digits
  IN IF ~match THEN ReplaceChar(normalized, ":", ",")
     ELSE LET bookRaw == trim(RemoveChar(SubSeq(normalized, 1, p3 - 1), "."))
              chapterVerse == ReplaceChar(SubSeq(normalized, p4, Len(normalized)), ":", ",")
              found == LookupGermanBook(toLowerCase(bookRaw))
              germanBook == IF found.type = "undefined" THEN bookRaw
                            ELSE TemplateString(found)
          IN germanBook \o <<" ">> \o chapterVerse

\* normalized.match(/^([1-3]?\s?[A-Za-z.]+)\s+([0-9].*)$/), then lines 58-61.
toGermanDisplayReference(reference) ==
  LET normalized == Normalize(reference)
      p1 == IF Len(normalized) >= 1 /\ normalized[1] \in {"1", "2", "3"} THEN 2 ELSE 1
      p2 == IF p1 <= Len(normalized) /\ normalized[p1] \in WhiteSpace THEN p1 + 1 ELSE p1
      p3 == SkipSet(normalized, p2, Letters \cup {"."})
      p4 == SkipSet(normalized, p3, WhiteSpace)
      match == /\ p3 > p2
               /\ p4 > p3
               /\ p4 <= Len(normalized)
               /\ normalized[p4] \in Digits
  IN IF ~match THEN normalized
     ELSE LET bookRaw == trim(RemoveChar(SubSeq(normalized, 1, p3 - 1), "."))
              chapterVerse == ReplaceChar(SubSeq(normalized, p4, Len(normalized)), ":", ",")
              found == LookupGermanBook(toLowerCase(bookRaw))
              germanBook == IF found.type = "undefined" THEN bookRaw
                            ELSE TemplateString(found)
          IN germanBook \o <<" ">> \o chapterVerse

----------------------------------------------------------------------------
(* parseUsccbMarkdown: a document is the sequence of its lines, as         *)
(* markdown.split(/\r?\n/) yields them.                                    *)

WordChars == Letters \cup Digits \cup {"_"}          \* \w

StartsWith(s, prefix) ==
  Len(s) >= Len(prefix) /\ SubSeq(s, 1, Len(prefix)) = prefix

\* The first index >= i of s whose character is in set (Len(s)+1 if none).
RECURSIVE SkipUntil(_, _, _)
SkipUntil(s, i, set) ==
  IF i <= Len(s) /\ s[i] \notin set THEN SkipUntil(s, i + 1, set) ELSE i

BoilerplateTitle ==
  <<"g","e","t"," ","t","h","e"," ","d","a","i","l","y"," ","r","e","a","d","i","n","g","s">>

\* Lines 69-76: the title is the first non-empty level-2 heading that is not
\* the boilerplate one; '' when there is none.
RECURSIVE FindTitle(_, _)
FindTitle(lines, i) ==
  IF i > Len(lines) THEN <<>>
  ELSE LET line == lines[i]
           candidate == trim(SubSeq(line, 4, Len(line)))
       IN IF ~StartsWith(line, <<"#", "#", " ">>) THEN FindTitle(lines, i + 1)
          ELSE IF candidate = <<>> THEN FindTitle(lines, i + 1)
          ELSE IF StartsWith(toLowerCase(candidate), BoilerplateTitle)
               THEN FindTitle(lines, i + 1)
          ELSE candidate

\* /^###\s+/.test(line)
IsLevel3Heading(line) ==
  StartsWith(line, <<"#", "#", "#">>) /\ SkipSet(line, 4, WhiteSpace) > 4

\* The same test without the i flag.
IsGospelHeadingCaseSensitive(line) ==
  LET p == SkipSet(line, 4, WhiteSpace)
  IN /\ IsLevel3Heading(line)
     /\ p + 5 <= Len(line)
     /\ SubSeq(line, p, p + 5) = <<"G","o","s","p","e","l">>
     /\ (p + 6 > Len(line) \/ line[p + 6] \notin WordChars)

\* /^###\s+Gospel\b/i.test(line)
IsGospelHeading(line) ==
  LET p == SkipSet(line, 4, WhiteSpace)
  IN /\ IsLevel3Heading(line)
     /\ p + 5 <= Len(line)
     /\ toLowerCase(SubSeq(line, p, p + 5)) = <<"g","o","s","p","e","l">>
     /\ (p + 6 > Len(line) \/ line[p + 6] \notin WordChars)

\* line.match(/\[([^\]]+)\]\(/), tried from index i on: <<>> or <<label>>.
RECURSIVE MatchLink(_, _)
MatchLink(line, i) ==
  IF i > Len(line) THEN <<>>
  ELSE LET j == SkipUntil(line, i + 1, {"]"})
       IN IF /\ line[i] = "["
             /\ j > i + 1
             /\ j + 1 <= Len(line)
             /\ line[j + 1] = "("
          THEN << SubSeq(line, i + 1, j - 1) >>
          ELSE MatchLink(line, i + 1)

\* Lines 78-92: the two-state scan for the Gospel citation; '' when none.
RECURSIVE ScanGospel(_, _, _)
ScanGospel(lines, i, isInGospelSection) ==
  IF i > Len(lines) THEN <<>>
  ELSE LET line == trim(lines[i])
           referenceMatch == MatchLink(line, 1)
       IN IF IsGospelHeading(line) THEN ScanGospel(lines, i + 1, TRUE)
          ELSE IF isInGospelSection /\ IsLevel3Heading(line) THEN <<>>
          ELSE IF ~isInGospelSection THEN ScanGospel(lines, i + 1, FALSE)
          ELSE IF referenceMatch # <<>> THEN trim(referenceMatch[1])
          ELSE ScanGospel(lines, i + 1, TRUE)

parseUsccbMarkdown(markdown) ==
  [title |-> FindTitle(markdown, 1), reference |-> ScanGospel(markdown, 1, FALSE)]

----------------------------------------------------------------------------
(* A call either returns a value or throws: [threw |-> FALSE, value |-> v] *)
(* or [threw |-> TRUE, value |-> null].                                    *)

Return(v) == [threw |-> FALSE, value |-> v]
Throw == [threw |-> TRUE, value |-> null]

DefaultTitle == <<"D","a","i","l","y"," ","G","o","s","p","e","l">>

\* fetchGospelReference without the check of lines 108-110.
fetchGospelReferenceUnchecked(response) ==
  IF response.kind # "ok" THEN Throw
  ELSE LET doc == parseUsccbMarkdown(response.body)
       IN Return([reference |-> doc.reference,
                  referenceDisplay |-> toGermanDisplayReference(doc.reference),
                  title |-> IF doc.title # <<>> THEN doc.title ELSE DefaultTitle])

\* fetchGospelReference, given the response fetch(url) produced: kind "reject"
\* (fetch threw), "status" (!resp.ok) or "ok" with body the document's lines.
fetchGospelReference(response) ==
  IF response.kind # "ok" THEN Throw
  ELSE LET doc == parseUsccbMarkdown(response.body)
       IN IF doc.reference = <<>> THEN Throw
          ELSE Return([reference |-> doc.reference,
                       referenceDisplay |-> toGermanDisplayReference(doc.reference),
                       title |-> IF doc.title # <<>> THEN doc.title ELSE DefaultTitle])

----------------------------------------------------------------------------
(* The text fetchers.  A response is [kind, body]: kind "reject" when      *)
(* fetch threw (a network error, or the abort of the 30 s timeout),        *)
(* "status" when !resp.ok, "badjson" when resp.json() threw, and "json"    *)
(* with body the parsed value.                                             *)

LANGUAGES == <<"de", "en", "pl">>

BOLLS_VERSIONS ==
  [de |-> [id |-> "ELB", name |-> "Elberfelder 1871"],
   en |-> [id |-> "KJV", name |-> "King James Version"],
   pl |-> [id |-> "BG", name |-> "Biblia Gdanska 1881"]]

BIBLE_VERSIONS ==
  [de |-> "f492a38d0e52db0f-01", en |-> "de4e12af7f28f599-02", pl |-> "18c05e3bd0440626-01"]

\* text.replace(/<S>\d+<\/S>/gi, '') from index i on.
RECURSIVE StripStrongNumbers(_, _)
StripStrongNumbers(s, i) ==
  IF i > Len(s) THEN <<>>
  ELSE LET d == SkipSet(s, i + 3, Digits)
           opens == /\ i + 2 <= Len(s)
                    /\ s[i] = "<" /\ LowerChar(s[i + 1]) = "s" /\ s[i + 2] = ">"
           closes == /\ d > i + 3
                     /\ d + 3 <= Len(s)
                     /\ s[d] = "<" /\ s[d + 1] = "/"
                     /\ LowerChar(s[d + 2]) = "s" /\ s[d + 3] = ">"
       IN IF opens /\ closes THEN StripStrongNumbers(s, d + 4)
          ELSE <<s[i]>> \o StripStrongNumbers(s, i + 1)

\* text.replace(/<[^>]*>/g, '') from index i on.
RECURSIVE StripTags(_, _)
StripTags(s, i) ==
  IF i > Len(s) THEN <<>>
  ELSE LET j == SkipUntil(s, i + 1, {">"})
       IN IF s[i] = "<" /\ j <= Len(s) THEN StripTags(s, j + 1)
          ELSE <<s[i]>> \o StripTags(s, i + 1)

\* Lines 239-242: the cleaned text of one verse.
CleanVerse(v) == trim(StripTags(StripStrongNumbers(v.text, 1), 1))

\* The same test with the end of a range excluded.
InSomeRangeExclusiveEnd(v, ranges) ==
  \E k \in DOMAIN ranges :
    v.verse >= ranges[k].verseStart /\ v.verse < ranges[k].verseEnd

\* ranges.some(r => v.verse >= r.verseStart && v.verse <= r.verseEnd)
InSomeRange(v, ranges) ==
  \E k \in DOMAIN ranges :
    v.verse >= ranges[k].verseStart /\ v.verse <= ranges[k].verseEnd

\* verses.filter(v => ranges.some(...)): reading v.verse of a null element throws.
FilterVerses(verses, ranges) ==
  IF \E i \in DOMAIN verses : verses[i] = null THEN Throw
  ELSE Return(SelectSeq(verses, LAMBDA v : InSomeRange(v, ranges)))

\* filtered.map(clean).filter(Boolean).join(' ').replace(/\s+/g, ' ').trim()
PassageText(filtered) ==
  LET cleaned == [i \in DOMAIN filtered |-> CleanVerse(filtered[i])]
      nonEmpty == SelectSeq(cleaned, LAMBDA t : t # <<>>)
  IN trim(CollapseWhiteSpace(Join(nonEmpty, <<" ">>), 1))

\* The try block of fetchBibleTextMultiRange (lines 212-251).
TryFetchBibleTextMultiRange(response, ranges, lang) ==
  IF response.kind \in {"reject", "badjson"} THEN Throw
  ELSE IF response.kind = "status" THEN Return(null)
  ELSE IF ~response.body.isArray \/ Len(response.body.verses) = 0 THEN Return(null)
  ELSE LET filtered == FilterVerses(response.body.verses, ranges)
       IN IF filtered.threw THEN Throw
          ELSE IF Len(filtered.value) = 0 THEN Return(null)
          ELSE Return([text |-> PassageText(filtered.value),
                       reference |-> BOLLS_VERSIONS[lang].name])

\* fetchBibleTextMultiRange without its catch: a throw reaches the caller.
fetchBibleTextMultiRangeUncaught(response, ranges, lang) ==
  TryFetchBibleTextMultiRange(response, ranges, lang)

\* fetchBibleTextMultiRange: the catch of lines 252-254 turns a throw into null.
fetchBibleTextMultiRange(response, ranges, lang) ==
  LET attempt == TryFetchBibleTextMultiRange(response, ranges, lang)
  IN IF attempt.threw THEN Return(null) ELSE attempt

\* content.replace(/\[\d+\]\s*/g, '') from index i on.
RECURSIVE StripVerseMarkers(_, _)
StripVerseMarkers(s, i) ==
  IF i > Len(s) THEN <<>>
  ELSE LET d == SkipSet(s, i + 1, Digits)
       IN IF s[i] = "[" /\ d > i + 1 /\ d <= Len(s) /\ s[d] = "]"
          THEN StripVerseMarkers(s, SkipSet(s, d + 1, WhiteSpace))
          ELSE <<s[i]>> \o StripVerseMarkers(s, i + 1)

\* The try block of fetchBibleText (API.Bible variant, lines 199-233).  The body
\* is data.data: content ('' when absent) and reference.  The copyright and
\* fumsToken fields are copied from the response and are left out.
TryFetchBibleText(response, lang) ==
  IF response.kind \in {"reject", "badjson"} THEN Throw
  ELSE IF response.kind = "status" THEN Return(null)
  ELSE IF response.body.content = <<>> THEN Return(null)
  ELSE Return([text |-> trim(StripVerseMarkers(
                                CollapseWhiteSpace(response.body.content, 1), 1)),
               reference |-> response.body.reference])

\* fetchBibleText: null without a key (line 193), and the catch of lines 234-236.
fetchBibleText(response, lang, key) ==
  LET attempt == TryFetchBibleText(response, lang)
  IN IF ~key THEN Return(null)
     ELSE IF attempt.threw THEN Return(null)
     ELSE attempt

\* The same count, the filter(Boolean) forgotten.
SuccessCountUnfiltered(map) == Cardinality(DOMAIN map)

\* Object.values(map).filter(Boolean).length (lines 284 and 441).
SuccessCount(map) == Cardinality({l \in DOMAIN map : map[l] # null})

\* The text stage without its sentinel: the map whatever it holds.
TextStageResultNoSentinel(res) == res

\* Lines 283-287 (262-265): null when no language has a text, else the map.
TextStageResult(res) == IF SuccessCount(res) = 0 THEN null ELSE res

----------------------------------------------------------------------------
(* The reflection call.  The body of a "json" response is the content of   *)
(* the first choice: [present |-> FALSE] when it is absent or empty, else  *)
(* text that JSON.parse rejects (valid = FALSE) or the object it parses    *)
(* to.  A text field of the object that is absent or empty is "".  The    *)
(* gedanken field is [isArray, value]: the elements of an array, or, for   *)
(* a value that is no array, << >> when it is falsy and <<v>> when it is   *)
(* the string v.                                                           *)

DefaultMitnahmeTitle == "Eine Frage fuer heute"

\* parseImpulseJson after JSON.parse (lines 329-355).
parseImpulseJson(content) ==
  IF ~content.valid THEN Throw
  ELSE LET p == content.object
       IN IF p.impuls.title = "" \/ p.impuls.text = "" THEN Throw
          ELSE IF p.mitnahme.text = "" THEN Throw
          ELSE IF p.tieferReingehen.titel = "" \/ p.tieferReingehen.text = "" THEN Throw
          ELSE Return(
            [impuls |-> [title |-> p.impuls.title, text |-> p.impuls.text],
             mitnahme |-> [title |-> IF p.mitnahme.title # "" THEN p.mitnahme.title
                                     ELSE DefaultMitnahmeTitle,
                           text |-> p.mitnahme.text],
             tieferReingehen |->
               [titel |-> p.tieferReingehen.titel,
                text |-> p.tieferReingehen.text,
                gedanken |-> IF p.tieferReingehen.gedanken.isArray
                             THEN p.tieferReingehen.gedanken.value
                             ELSE IF p.tieferReingehen.gedanken.value = <<>>
                                  THEN <<"">>
                                  ELSE p.tieferReingehen.gedanken.value,
                uebung |-> p.tieferReingehen.uebung]])

\* callMagisterium: every failure throws (the finally only clears the timer).
callMagisterium(response) ==
  IF response.kind \in {"reject", "status", "badjson"} THEN Throw
  ELSE IF ~response.body.present THEN Throw
  ELSE parseImpulseJson(response.body)

----------------------------------------------------------------------------
(* What the environment can answer.                                        *)

Sp == <<" ">>

CiteMatthew == <<"M","a","t","t","h","e","w"," ","6",":","1","-","6",","," ","1","6","-","1","8">>
CiteMark == <<"M","a","r","k"," ","6",":","7">>
CiteBlah == <<"B","l","a","h"," ","1",":","1">>
CiteConstructor == <<"C","o","n","s","t","r","u","c","t","o","r"," ","6",":","1">>
CiteNoVerse == <<"M","a","r","k"," ","6">>

RunCitations == {CiteMatthew, CiteMark, CiteBlah, CiteConstructor, CiteNoVerse}

Link(label) == <<"[">> \o label \o <<"]", "(", "u", ")">>

\* A readings page whose Gospel section cites label.
ReadingsPage(label) ==
  << <<"#","#"," ","T","u","e","s","d","a","y">>,
     <<"#","#","#"," ","R","e","a","d","i","n","g"," ","1">>,
     Link(<<"A","c","t","s"," ","1",":","1">>),
     <<"#","#","#"," ","G","o","s","p","e","l">>,
     Link(label),
     <<"#","#","#"," ","P","s","a","l","m">>,
     Link(<<"P","s"," ","1",":","1">>) >>

\* A page with no Gospel section, and one whose Gospel section holds no link.
PageWithoutGospel ==
  << <<"#","#","#"," ","R","e","a","d","i","n","g"," ","1">>,
     Link(<<"A","c","t","s"," ","1",":","1">>) >>
PageWithEmptyGospel ==
  << <<"#","#","#"," ","G","o","s","p","e","l">>,
     <<"#","#","#"," ","P","s","a","l","m">>,
     Link(<<"P","s"," ","1",":","1">>) >>

Response(kind, body) == [kind |-> kind, body |-> body]
FailedResponses == {Response("reject", null), Response("status", null)}

UsccbResponses ==
  FailedResponses
  \cup {Response("ok", ReadingsPage(c)) : c \in RunCitations}
  \cup {Response("ok", PageWithoutGospel), Response("ok", PageWithEmptyGospel)}

Verse(n, text) == [verse |-> n, text |-> text]

SampleChapter ==
  << Verse(1, <<"<","S",">","1","<","/","S",">","I","n"," ">>),
     Verse(7, <<"n","o">>),
     Verse(16, <<"<","i",">","u","s","<","/","i",">">>) >>
ChapterWithNull == << Verse(1, <<"I","n">>), null >>
ChapterOutOfRange == << Verse(9, <<"x">>) >>

JsonArray(verses) == Response("json", [isArray |-> TRUE, verses |-> verses])

BollsResponses ==
  FailedResponses
  \cup {Response("badjson", null),
        Response("json", [isArray |-> FALSE, verses |-> <<>>]),
        JsonArray(<<>>), JsonArray(SampleChapter),
        JsonArray(ChapterWithNull), JsonArray(ChapterOutOfRange)}

ApiBibleResponses ==
  FailedResponses
  \cup {Response("badjson", null),
        Response("json", [content |-> <<>>, reference |-> ""]),
        Response("json", [content |-> <<"[","7","]"," ","n","o","\n">>,
                          reference |-> "Mark 6:7"])}

Field(title, text) == [title |-> title, text |-> text]
Deeper(titel, text, gedanken, uebung) ==
  [titel |-> titel, text |-> text, gedanken |-> gedanken, uebung |-> uebung]
JsonObject(impuls, mitnahme, deeper) ==
  Response("json", [present |-> TRUE, valid |-> TRUE,
                    object |-> [impuls |-> impuls, mitnahme |-> mitnahme,
                                tieferReingehen |-> deeper]])

MagisteriumResponses ==
  FailedResponses
  \cup {Response("badjson", null),
        Response("json", [present |-> FALSE, valid |-> FALSE, object |-> null]),
        Response("json", [present |-> TRUE, valid |-> FALSE, object |-> null]),
        JsonObject(Field("t", "x"), Field("q", ""),
                   Deeper("d", "y", [isArray |-> TRUE, value |-> <<"g">>], "u")),
        JsonObject(Field("t", "x"), Field("q", "z"),
                   Deeper("d", "y", [isArray |-> TRUE, value |-> <<"g", "h">>], "u")),
        JsonObject(Field("t", "x"), Field("", "z"),
                   Deeper("d", "y", [isArray |-> FALSE, value |-> <<>>], ""))}

\* The record an earlier run left in a file.
PreviousOutput ==
  [date |-> "earlier", gospelRef |-> <<>>, gospelRefOriginal |-> <<>>,
   generatedAt |-> "earlier", gospelTexts |-> null, impulses |-> <<>>]

----------------------------------------------------------------------------
(* main().  An action is one awaited call together with the synchronous    *)
(* code that runs when it settles, up to the next awaited call; the two    *)
(* writeFileSync calls are one action each.  The file-system calls are     *)
(* taken to succeed.                                                       *)

Init ==
  /\ variant \in {"bolls", "apibible"}
  /\ API_KEY \in BOOLEAN
  /\ API_BIBLE_KEY \in (IF variant = "bolls" THEN {FALSE} ELSE BOOLEAN)
  /\ pc = "main"
  /\ exitCode = -1
  /\ usccb = null
  /\ gospel = null
  /\ parsed = null
  /\ results = <<>>
  /\ resp = null
  /\ gospelTexts = null
  /\ impulses = <<>>
  /\ files \in {[dated |-> null, latest |-> null],
                [dated |-> null, latest |-> PreviousOutput],
                [dated |-> PreviousOutput, latest |-> PreviousOutput]}
  /\ netLog = <<>>
  /\ input = null
  /\ output = null

Request(kind, lang) == [kind |-> kind, lang |-> lang]

\* The loop going back to a language whose attempt failed.
NextLangRetrying(map) ==
  LET n == Cardinality(DOMAIN map)
  IN IF n > 0 /\ map[LANGUAGES[n]] = null THEN LANGUAGES[n] ELSE LANGUAGES[n + 1]

\* The language the loop over LANGUAGES handles next, map being what it has assigned.
NextLang(map) == LANGUAGES[Cardinality(DOMAIN map) + 1]
IsLastLang(lang) == lang = LANGUAGES[Len(LANGUAGES)]

\* The resolver of the running variant.
Resolve(reference) ==
  IF variant = "bolls" THEN parseReference(reference) ELSE referenceToOsis(reference)

\* The text stage is entered: generate-impulse.js always enters it, the
\* API.Bible variant only with API_BIBLE_KEY set (line 399).
TextStageEntered == variant = "bolls" \/ API_BIBLE_KEY

\* The key check that reports the missing key and goes on.
CheckApiKeyWarnOnly ==
  /\ pc = "main"
  /\ pc' = "fetchGospelReference"
  /\ UNCHANGED <<variant, API_KEY, API_BIBLE_KEY, exitCode, usccb, gospel, parsed, results,
                 resp, gospelTexts, impulses, files, netLog, input, output>>

\* The key check asking for the text backend's key as well.
CheckApiKeyBothRequired ==
  /\ pc = "main"
  /\ IF ~API_KEY \/ (variant = "apibible" /\ ~API_BIBLE_KEY)
     THEN pc' = "done" /\ exitCode' = 1
     ELSE pc' = "fetchGospelReference" /\ UNCHANGED exitCode
  /\ UNCHANGED <<variant, API_KEY, API_BIBLE_KEY, usccb, gospel, parsed, results, resp,
                 gospelTexts, impulses, files, netLog, input, output>>

\* Lines 401-404: process.exit(1) without the key.
CheckApiKey ==
  /\ pc = "main"
  /\ IF ~API_KEY
     THEN pc' = "done" /\ exitCode' = 1
     ELSE pc' = "fetchGospelReference" /\ UNCHANGED exitCode
  /\ UNCHANGED <<variant, API_KEY, API_BIBLE_KEY, usccb, gospel, parsed, results, resp,
                 gospelTexts, impulses, files, netLog, input, output>>

\* Lines 409-417, and the start of fetchAllBibleTexts (lines 265-270) when the
\* reference was found.
FetchGospelReference ==
  /\ pc = "fetchGospelReference"
  /\ \E response \in UsccbResponses :
       LET r == fetchGospelReference(response)
           p == Resolve(r.value.reference)
       IN /\ usccb' = response
          /\ netLog' = Append(netLog, Request("usccb", ""))
          /\ IF r.threw
             THEN /\ pc' = "done"
                  /\ exitCode' = 1
                  /\ UNCHANGED <<gospel, parsed>>
             ELSE /\ gospel' = r.value
                  /\ UNCHANGED exitCode
                  /\ IF TextStageEntered /\ p # null
                     THEN parsed' = p /\ pc' = "fetchBibleText"
                     ELSE parsed' = null /\ pc' = "callMagisterium"
  /\ UNCHANGED <<variant, API_KEY, API_BIBLE_KEY, results, resp, gospelTexts,
                 impulses, files, input, output>>

\* The per-language text fetch of the running variant.
FetchText(response, lang) ==
  IF variant = "bolls"
  THEN fetchBibleTextMultiRange(response, parsed.ranges, lang)
  ELSE fetchBibleText(response, lang, API_BIBLE_KEY)

\* One turn of the loop of fetchAllBibleTexts (lines 277-281); after the last
\* language, lines 283-287.  A throw would leave the loop for main's catch
\* (lines 424-426), gospelTexts staying null.  fetchBibleText of the API.Bible
\* variant returns before its fetch when API_BIBLE_KEY is not set (line 193).
FetchBibleText ==
  /\ pc = "fetchBibleText"
  /\ \E response \in (IF variant = "bolls" THEN BollsResponses ELSE ApiBibleResponses) :
       LET lang == NextLang(results)
           r == FetchText(response, lang)
           assigned == (lang :> r.value) @@ results
       IN /\ resp' = response
          /\ netLog' = IF variant = "bolls" \/ API_BIBLE_KEY
                       THEN Append(netLog, Request("text", lang))
                       ELSE netLog
          /\ IF r.threw
             THEN /\ pc' = "callMagisterium"
                  /\ UNCHANGED <<results, gospelTexts>>
             ELSE /\ results' = assigned
                  /\ IF IsLastLang(lang)
                     THEN /\ gospelTexts' = TextStageResult(assigned)
                          /\ pc' = "callMagisterium"
                     ELSE UNCHANGED <<gospelTexts, pc>>
  /\ UNCHANGED <<variant, API_KEY, API_BIBLE_KEY, exitCode, usccb, gospel, parsed,
                 impulses, files, input, output>>

\* The loop without its try/catch: a failed call reaches main().catch (line 472).
CallMagisteriumUncaught ==
  /\ pc = "callMagisterium"
  /\ \E response \in MagisteriumResponses :
       LET lang == NextLang(impulses)
           r == callMagisterium(response)
           assigned == (lang :> r.value) @@ impulses
       IN /\ resp' = response
          /\ netLog' = Append(netLog, Request("reflection", lang))
          /\ IF r.threw THEN pc' = "done" /\ exitCode' = 1 /\ UNCHANGED impulses
             ELSE /\ impulses' = assigned
                  /\ IF ~IsLastLang(lang) THEN UNCHANGED <<pc, exitCode>>
                     ELSE IF SuccessCount(assigned) = 0 THEN pc' = "done" /\ exitCode' = 1
                     ELSE pc' = "writeDated" /\ UNCHANGED exitCode
  /\ UNCHANGED <<variant, API_KEY, API_BIBLE_KEY, usccb, gospel, parsed, results,
                 gospelTexts, files, input, output>>

\* One turn of the loop of lines 430-438; after the last language, lines 441-445.
CallMagisterium ==
  /\ pc = "callMagisterium"
  /\ \E response \in MagisteriumResponses :
       LET lang == NextLang(impulses)
           r == callMagisterium(response)
           assigned == (lang :> (IF r.threw THEN null ELSE r.value)) @@ impulses
       IN /\ resp' = response
          /\ netLog' = Append(netLog, Request("reflection", lang))
          /\ impulses' = assigned
          /\ IF ~IsLastLang(lang) THEN UNCHANGED <<pc, exitCode>>
             ELSE IF SuccessCount(assigned) = 0 THEN pc' = "done" /\ exitCode' = 1
             ELSE pc' = "writeDated" /\ UNCHANGED exitCode
  /\ UNCHANGED <<variant, API_KEY, API_BIBLE_KEY, usccb, gospel, parsed, results,
                 gospelTexts, files, input, output>>

\* Lines 448-455: the record both files receive.
OutputRecord ==
  [date |-> "today",
   gospelRef |-> gospel.referenceDisplay,
   gospelRefOriginal |-> gospel.reference,
   generatedAt |-> "now",
   gospelTexts |-> gospelTexts,
   impulses |-> impulses]

\* Line 464.
WriteDated ==
  /\ pc = "writeDated"
  /\ files' = [files EXCEPT !.dated = OutputRecord]
  /\ pc' = "writeLatest"
  /\ UNCHANGED <<variant, API_KEY, API_BIBLE_KEY, exitCode, usccb, gospel, parsed,
                 results, resp, gospelTexts, impulses, netLog, input, output>>

\* Line 465; main returns and the process ends with status 0.
WriteLatest ==
  /\ pc = "writeLatest"
  /\ files' = [files EXCEPT !.latest = OutputRecord]
  /\ pc' = "done"
  /\ exitCode' = 0
  /\ UNCHANGED <<variant, API_KEY, API_BIBLE_KEY, usccb, gospel, parsed,
                 results, resp, gospelTexts, impulses, netLog, input, output>>

Next ==
  \/ CheckApiKey
  \/ FetchGospelReference
  \/ FetchBibleText
  \/ CallMagisterium
  \/ WriteDated
  \/ WriteLatest

Spec == Init /\ [][Next]_vars

----------------------------------------------------------------------------
(* The resolvers on their own.  A citation is written out from its parts   *)
(* (book token, chapter, verse segments, separators) and either resolver   *)
(* is applied to the text.                                                 *)

MaxSegments == 2

Segment(form, start, end) == [form |-> form, start |-> start, end |-> end]

\* The text of a segment: a single verse, a range with a hyphen, with an en
\* dash or with blanks around the hyphen, a verse with a letter, nothing.
RenderSegment(seg) ==
  CASE seg.form = "single" -> ToDigits(seg.start)
    [] seg.form = "hyphen" -> ToDigits(seg.start) \o <<"-">> \o ToDigits(seg.end)
    [] seg.form = "ndash" -> ToDigits(seg.start) \o <<"ndash">> \o ToDigits(seg.end)
    [] seg.form = "spaced" -> ToDigits(seg.start) \o <<" ", "-", " ">> \o ToDigits(seg.end)
    [] seg.form = "letter" -> ToDigits(seg.start) \o <<"a">>
    [] OTHER -> <<>>

WellFormed(seg) == seg.form \in {"single", "hyphen", "ndash", "spaced"}

SegmentChoices ==
  {Segment("single", 1, 1), Segment("single", 16, 16),
   Segment("hyphen", 1, 6), Segment("hyphen", 16, 18), Segment("hyphen", 6, 1),
   Segment("ndash", 1, 6), Segment("spaced", 16, 18),
   Segment("letter", 1, 1), Segment("empty", 0, 0)}

Separators == { <<",", " ">>, <<";">> }

BookTokens ==
  { <<"M","a","t","t","h","e","w">>, <<"1"," ","J","o","h","n">>,
    <<"S","o","n","g"," ","o","f"," ","S","o","n","g","s">>, <<"M","K">>,
    <<"T","o","b","i","t">>, <<"B","l","a","h">>,
    <<"C","o","n","s","t","r","u","c","t","o","r">> }

ChapterNumbers == {6, 12}

\* segments[1] sep[1] segments[2] ...
RECURSIVE RenderVersePart(_, _)
RenderVersePart(segments, seps) ==
  IF Len(segments) = 1 THEN RenderSegment(segments[1])
  ELSE RenderSegment(segments[1]) \o seps[1]
       \o RenderVersePart(Tail(segments), Tail(seps))

RenderCitation(book, chapter, segments, seps) ==
  book \o <<" ">> \o ToDigits(chapter) \o <<":">> \o RenderVersePart(segments, seps)

CitationParts ==
  UNION { [book : BookTokens, chapter : ChapterNumbers,
           segments : [1..n -> SegmentChoices],
           seps : [1..(n - 1) -> Separators]] : n \in 1..MaxSegments }

PipelineIdle ==
  /\ variant = "bolls" /\ API_KEY = FALSE /\ API_BIBLE_KEY = FALSE
  /\ pc = "idle" /\ exitCode = -1 /\ usccb = null /\ gospel = null
  /\ parsed = null /\ results = <<>> /\ resp = null /\ gospelTexts = null
  /\ impulses = <<>> /\ files = <<>> /\ netLog = <<>>

pipelineVars == <<variant, API_KEY, API_BIBLE_KEY, pc, exitCode, usccb, gospel, parsed,
                  results, resp, gospelTexts, impulses, files, netLog>>

InitResolver ==
  /\ PipelineIdle
  /\ \E parts \in CitationParts :
       input = [fn |-> "none",
                parts |-> parts,
                arg |-> RenderCitation(parts.book, parts.chapter,
                                       parts.segments, parts.seps)]
  /\ output = null

CallParseReference ==
  /\ pc = "idle"
  /\ input.fn = "none"
  /\ input' = [input EXCEPT !.fn = "parseReference"]
  /\ output' = parseReference(input.arg)
  /\ UNCHANGED pipelineVars

CallReferenceToOsis ==
  /\ pc = "idle"
  /\ input.fn = "none"
  /\ input' = [input EXCEPT !.fn = "referenceToOsis"]
  /\ output' = referenceToOsis(input.arg)
  /\ UNCHANGED pipelineVars

NextResolver == CallParseReference \/ CallReferenceToOsis

SpecResolver == InitResolver /\ [][NextResolver]_vars

----------------------------------------------------------------------------
(* The verse filter on its own: a chapter response and a list of ranges    *)
(* are drawn, and the "json" branch of fetchBibleTextMultiRange is applied.*)

MaxVerse == 3
MaxRanges == 2

\* The word of verse n, and the text the backend sends for it: the word with
\* a Strong's number before it (odd n) or inside an inline tag (even n).
Word(n) == <<LowerSeq[n]>>
MarkedUp(n) ==
  IF n % 2 = 1
  THEN <<"<", "S", ">">> \o ToDigits(n) \o <<"<", "/", "S", ">">> \o Word(n) \o <<" ">>
  ELSE <<"<", "i", ">">> \o Word(n) \o <<"<", "/", "i", ">">>

\* The responses: some of the verses 1..MaxVerse, each once, in any order.
IsInjective(s) == \A i, j \in DOMAIN s : i # j => s[i] # s[j]
VerseOrders ==
  UNION { {s \in [1..n -> 1..MaxVerse] : IsInjective(s)} : n \in 1..MaxVerse }
ChapterResponses ==
  { [i \in DOMAIN s |-> Verse(s[i], MarkedUp(s[i]))] : s \in VerseOrders }

RangeChoices == [verseStart : 1..MaxVerse, verseEnd : 1..MaxVerse]
RangeLists == UNION { [1..n -> RangeChoices] : n \in 1..MaxRanges }

InitFilter ==
  /\ PipelineIdle
  /\ input \in [fn : {"none"}, verses : ChapterResponses, ranges : RangeLists]
  /\ output = null

CallFetchBibleTextMultiRange ==
  /\ pc = "idle"
  /\ input.fn = "none"
  /\ input' = [input EXCEPT !.fn = "fetchBibleTextMultiRange"]
  /\ output' = fetchBibleTextMultiRange(JsonArray(input.verses), input.ranges, "en")
  /\ UNCHANGED pipelineVars

NextFilter == CallFetchBibleTextMultiRange

SpecFilter == InitFilter /\ [][NextFilter]_vars

----------------------------------------------------------------------------
(* parseUsccbMarkdown on its own.  A document is put together from lines   *)
(* of known kinds: "gospel" (a level-3 heading whose label starts with the *)
(* word Gospel), "heading" (any other level-3 heading), "link" (a line     *)
(* that is no level-3 heading and holds a link token, label being the      *)
(* first one's) and "other".                                               *)

MaxLines == 4

Line(kind, label, text) == [kind |-> kind, label |-> label, text |-> text]

LabelA == <<"A"," ","1",":","2">>
LabelB == <<"B"," ","3",":","4">>

LineChoices ==
  { Line("gospel", <<>>, <<"#","#","#"," ","G","o","s","p","e","l">>),
    Line("gospel", <<>>, <<" ","#","#","#"," "," ","G","O","S","P","E","L"," ","x">>),
    Line("gospel", <<>>, <<"#","#","#"," ","g","o","s","p","e","l",":"," ">> \o Link(LabelB)),
    Line("heading", <<>>, <<"#","#","#"," ","P","s","a","l","m">>),
    Line("heading", <<>>, <<"#","#","#"," ","G","o","s","p","e","l","s">>),
    Line("other", <<>>, <<"#","#","#","G","o","s","p","e","l">>),
    Line("other", <<>>, <<"#","#","#","#"," ","G","o","s","p","e","l">>),
    Line("other", <<>>, <<"[","x","]"," ","(","u",")">>),
    Line("link", LabelA, Link(LabelA)),
    Line("link", LabelB, <<" ","s","e","e"," ">> \o Link(<<" ">> \o LabelB \o <<" ">>)
                           \o <<" ">> \o Link(LabelA)) }

Documents == UNION { [1..n -> LineChoices] : n \in 1..MaxLines }

InitExtractor ==
  /\ PipelineIdle
  /\ \E doc \in Documents :
       input = [fn |-> "none", doc |-> doc, arg |-> [i \in DOMAIN doc |-> doc[i].text]]
  /\ output = null

CallParseUsccbMarkdown ==
  /\ pc = "idle"
  /\ input.fn = "none"
  /\ input' = [input EXCEPT !.fn = "parseUsccbMarkdown"]
  /\ output' = parseUsccbMarkdown(input.arg)
  /\ UNCHANGED pipelineVars

NextExtractor == CallParseUsccbMarkdown

SpecExtractor == InitExtractor /\ [][NextExtractor]_vars

----------------------------------------------------------------------------
(* toGermanDisplayReference on its own.  A citation is written out from    *)
(* its parts: leading white space, numeric prefix, book, gap, remainder    *)
(* and trailing white space.                                               *)

SongOfSongs == <<"S","o","n","g"," ","o","f"," ","S","o","n","g","s">>

Prefixes == { <<>>, <<"1">>, <<"2", " ">>, <<"4">> }
DisplayBooks ==
  { <<"M","a","r","k">>, <<"M","t",".">>, <<"J",".","n",".">>, <<"T","o","b","i","t">>,
    <<"c","o","n","s","t","r","u","c","t","o","r">>, SongOfSongs, <<>> }
Gaps == { <<>>, <<" ">>, <<" ", " ">> }
Remainders ==
  { <<"6",":","7">>, <<"6",":","1","-","6",","," ","1","6","-","1","8">>,
    <<"6",":","7","-","7",":","2">>, <<"s","i","x">>, <<":","7">> }

DisplayParts ==
  [lead : {<<>>, <<" ">>}, prefix : Prefixes, book : DisplayBooks, gap : Gaps,
   rest : Remainders, trail : {<<>>, <<" ">>}]

RenderDisplayParts(p) == p.lead \o p.prefix \o p.book \o p.gap \o p.rest \o p.trail

InitNormalizer ==
  /\ PipelineIdle
  /\ \E parts \in DisplayParts :
       input = [fn |-> "none", parts |-> parts, arg |-> RenderDisplayParts(parts)]
  /\ output = null

CallToGermanDisplayReference ==
  /\ pc = "idle"
  /\ input.fn = "none"
  /\ input' = [input EXCEPT !.fn = "toGermanDisplayReference"]
  /\ output' = toGermanDisplayReference(input.arg)
  /\ UNCHANGED pipelineVars

NextNormalizer == CallToGermanDisplayReference

SpecNormalizer == InitNormalizer /\ [][NextNormalizer]_vars

----------------------------------------------------------------------------
(* parseImpulseJson on its own, applied to what JSON.parse yields: text it *)
(* rejects, or an object with each text field present or not and gedanken  *)
(* absent, a string, or an array of zero, one or two strings.              *)

GedankenChoices ==
  { [isArray |-> FALSE, value |-> <<>>],
    [isArray |-> FALSE, value |-> <<"g">>],
    [isArray |-> TRUE, value |-> <<>>],
    [isArray |-> TRUE, value |-> <<"g">>],
    [isArray |-> TRUE, value |-> <<"g", "h">>] }

ReflectionContents ==
  { [present |-> TRUE, valid |-> FALSE, object |-> null] }
  \cup { JsonObject(Field(it, ix), Field(mt, mx), Deeper(dt, dx, g, u)).body :
           it \in {"", "t"}, ix \in {"", "x"}, mt \in {"", "q"}, mx \in {"", "z"},
           dt \in {"", "d"}, dx \in {"", "y"}, g \in GedankenChoices, u \in {"", "u"} }

InitReflection ==
  /\ PipelineIdle
  /\ \E content \in ReflectionContents : input = [fn |-> "none", content |-> content]
  /\ output = null

CallParseImpulseJson ==
  /\ pc = "idle"
  /\ input.fn = "none"
  /\ input' = [input EXCEPT !.fn = "parseImpulseJson"]
  /\ output' = parseImpulseJson(input.content)
  /\ UNCHANGED pipelineVars

NextReflection == CallParseImpulseJson

SpecReflection == InitReflection /\ [][NextReflection]_vars

----------------------------------------------------------------------------
(* The claims.                                                             *)

AllLanguages == Range(LANGUAGES)

\* A file that this run has not written: absent, or still the earlier run's.
Unwritten(f) == files[f] = null \/ files[f] = PreviousOutput

RequestIssued(kind, lang) == \E i \in DOMAIN netLog : netLog[i] = Request(kind, lang)
LastRequest == netLog[Len(netLog)]

\* The reference stage failed: the fetch threw, the status was not 2xx, or the
\* document holds no citation in its Gospel section.
ReferenceStageFailed ==
  /\ usccb # null
  /\ (usccb.kind # "ok" \/ ScanGospel(usccb.body, 1, FALSE) = <<>>)

\* C1: if the reference stage fails, the run ends with a nonzero status, no
\* text-backend request and no reflection call is ever issued, and neither
\* output file is written.
C1_ReferenceFailureIsFatal ==
  ReferenceStageFailed =>
    /\ pc = "done"
    /\ exitCode > 0
    /\ \A i \in DOMAIN netLog : netLog[i].kind = "usccb"
    /\ Unwritten("dated")
    /\ Unwritten("latest")

C1_Witness ==
  /\ ReferenceStageFailed
  /\ usccb.kind = "ok"
  /\ pc = "done"
  /\ files.latest = PreviousOutput

\* C2: whenever at least one of the three reflection calls succeeds, the run
\* exits zero and both files hold a record whose impulses map has all three
\* languages, each entry being what that language's call returned, or null
\* when it failed; and an entry, once assigned, is never changed.
C2_EntryIsOwnOutcome ==
  (Len(netLog) > 0 /\ LastRequest.kind = "reflection") =>
    LET r == callMagisterium(resp)
    IN /\ LastRequest.lang \in DOMAIN impulses
       /\ impulses[LastRequest.lang] = (IF r.threw THEN null ELSE r.value)

C2_OneSuccessSuffices ==
  (\E l \in DOMAIN impulses : impulses[l] # null) =>
    /\ pc \in {"callMagisterium", "writeDated", "writeLatest", "done"}
    /\ exitCode \in {-1, 0}
    /\ pc = "callMagisterium" <=> DOMAIN impulses # AllLanguages
    /\ pc = "done" =>
         /\ exitCode = 0
         /\ files.dated.impulses = impulses
         /\ files.latest.impulses = impulses

C2_EntriesKept ==
  \A l \in DOMAIN impulses : l \in DOMAIN impulses' /\ impulses'[l] = impulses[l]

C2_PartialReflections ==
  /\ [](C2_EntryIsOwnOutcome /\ C2_OneSuccessSuffices)
  /\ [][C2_EntriesKept]_vars

C2_Witness ==
  /\ pc = "done"
  /\ exitCode = 0
  /\ DOMAIN impulses = AllLanguages
  /\ impulses["de"] # null
  /\ impulses["en"] = null
  /\ impulses["pl"] # null
  /\ files.latest.impulses = impulses

\* C3: if all three reflection calls fail, the run ends with a nonzero status
\* and writes neither file; a file is written only after all three languages
\* were attempted and at least one reflection is not null.
C3_AllFailedIsFatal ==
  /\ (DOMAIN impulses = AllLanguages /\ \A l \in AllLanguages : impulses[l] = null) =>
       /\ pc = "done"
       /\ exitCode > 0
       /\ Unwritten("dated")
       /\ Unwritten("latest")
  /\ (~Unwritten("dated") \/ ~Unwritten("latest")) =>
       /\ \A l \in AllLanguages : RequestIssued("reflection", l)
       /\ DOMAIN impulses = AllLanguages
       /\ \E l \in AllLanguages : impulses[l] # null

C3_Witness ==
  /\ DOMAIN impulses = AllLanguages
  /\ \A l \in AllLanguages : impulses[l] = null /\ RequestIssued("reflection", l)
  /\ pc = "done"
  /\ files.latest = PreviousOutput

\* C4: without MAGISTERIUM_API_KEY the run ends with a nonzero status before
\* any network request is issued, and no file is written.
C4_MissingKeyAbortsFirst ==
  ~API_KEY =>
    /\ netLog = <<>>
    /\ Unwritten("dated")
    /\ Unwritten("latest")
    /\ pc # "main" => (pc = "done" /\ exitCode > 0)

C4_Witness == ~API_KEY /\ pc = "done" /\ exitCode = 1 /\ netLog = <<>>

\* The book table of the running variant.
BookTable == IF variant = "bolls" THEN DOMAIN BOOK_TO_NUMBER ELSE DOMAIN BOOK_TO_OSIS

\* The citation does not have the form Book Chapter:..., or its book is no key
\* of the book table.
UnknownOrUnparseable(reference) ==
  LET match == MatchBookChapter(Normalize(reference))
  IN match = <<>> \/ toLowerCase(trim(match[1].book)) \notin BookTable

\* C5: for an unparseable or unknown-book citation the resolver returns its
\* failure value, no text-backend request is issued for any language, the
\* persisted passage-text field is null, and the reflection calls still run
\* for every language.
C5_ResolutionFailureSkipsTexts ==
  (gospel # null /\ TextStageEntered /\ UnknownOrUnparseable(gospel.reference)) =>
    /\ parsed = null
    /\ \A l \in AllLanguages : ~RequestIssued("text", l)
    /\ gospelTexts = null
    /\ pc \in {"callMagisterium", "writeDated", "writeLatest", "done"}
    /\ pc # "callMagisterium" => \A l \in AllLanguages : RequestIssued("reflection", l)
    /\ (pc = "done" /\ exitCode = 0) => files.latest.gospelTexts = null

\* A text response that yields no text: a timeout or network error, a status
\* that is not 2xx, a body that is not JSON, not an array, empty or malformed.
TextFailure(response) ==
  \/ response.kind # "json"
  \/ /\ variant = "bolls"
     /\ \/ ~response.body.isArray
        \/ response.body.verses = <<>>
        \/ \E i \in DOMAIN response.body.verses : response.body.verses[i] = null
  \/ /\ variant = "apibible"
     /\ response.body.content = <<>>

\* C6: a language whose text fetch fails gets null, the fetch returns instead
\* of throwing, every later language is still fetched, and the entries of the
\* other languages are not touched.
C6_FailureIsNull ==
  (Len(netLog) > 0 /\ LastRequest.kind = "text") =>
    /\ LastRequest.lang \in DOMAIN results
    /\ TextFailure(resp) => results[LastRequest.lang] = null
    /\ ~IsLastLang(LastRequest.lang) => pc = "fetchBibleText"

C6_AllAttempted ==
  (parsed # null /\ pc \in {"callMagisterium", "writeDated", "writeLatest", "done"}) =>
    /\ DOMAIN results = AllLanguages
    /\ \A l \in AllLanguages : RequestIssued("text", l)

C6_OthersKept ==
  \A l \in DOMAIN results : l \in DOMAIN results' /\ results'[l] = results[l]

C6_TextFetchIsolation ==
  /\ [](C6_FailureIsNull /\ C6_AllAttempted)
  /\ [][C6_OthersKept]_vars

C6_Witness ==
  /\ Len(netLog) > 0
  /\ LastRequest = Request("text", "pl")
  /\ resp.kind = "reject"
  /\ results["de"] = null
  /\ results["en"] # null
  /\ results["pl"] = null

TextStageOver ==
  gospel # null /\ pc \in {"callMagisterium", "writeDated", "writeLatest", "done"}

\* C7: the text stage yields null exactly when no language produced a text or
\* the citation was not resolved; otherwise it yields the map with an entry
\* for every language, and what the files hold as gospelTexts is never a map
\* whose entries are all null.
C7_NullSentinel ==
  TextStageOver =>
    /\ gospelTexts = null <=>
         (parsed = null \/ \A l \in DOMAIN results : results[l] = null)
    /\ gospelTexts # null =>
         /\ DOMAIN gospelTexts = AllLanguages
         /\ \A l \in AllLanguages : gospelTexts[l] = results[l]
         /\ \E l \in AllLanguages : gospelTexts[l] # null
    /\ \A f \in {"dated", "latest"} :
         ~Unwritten(f) => files[f].gospelTexts = gospelTexts

C7_Witness ==
  /\ TextStageOver
  /\ parsed # null
  /\ DOMAIN results = AllLanguages
  /\ \A l \in AllLanguages : results[l] = null
  /\ pc = "done"
  /\ exitCode = 0
  /\ files.latest.gospelTexts = null

\* The positions of the response whose verse number lies in some range.
Matching(verses, ranges) ==
  {i \in DOMAIN verses :
     \E k \in DOMAIN ranges :
       ranges[k].verseStart <= verses[i].verse /\ verses[i].verse <= ranges[k].verseEnd}

\* The elements of a set of numbers in ascending order.
RECURSIVE Ascending(_)
Ascending(S) ==
  IF S = {} THEN <<>>
  ELSE LET m == CHOOSE x \in S : \A y \in S : x <= y
       IN <<m>> \o Ascending(S \ {m})

\* C8: the passage holds exactly the verses whose number lies in at least one
\* requested range (bounds included), each once, in the order of the
\* response, with no markup left; with no such verse there is no passage.
C8_VersesInAnyRange ==
  input.fn = "fetchBibleTextMultiRange" =>
    LET kept == Ascending(Matching(input.verses, input.ranges))
        words == [j \in DOMAIN kept |-> Word(input.verses[kept[j]].verse)]
    IN /\ ~output.threw
       /\ IF kept = <<>> THEN output.value = null
          ELSE /\ output.value # null
               /\ output.value.text = Join(words, <<" ">>)

C8_Witness ==
  /\ input.fn = "fetchBibleTextMultiRange"
  /\ [i \in DOMAIN input.verses |-> input.verses[i].verse] = <<3, 2, 1>>
  /\ input.ranges = << [verseStart |-> 1, verseEnd |-> 1],
                       [verseStart |-> 3, verseEnd |-> 3] >>
  /\ output.value.text = <<"c", " ", "a">>

\* The citation is Book Chapter:VersePart with every segment a single verse or
\* a verse-verse range, and its book is a key of the resolver's table.
InGrammar == \A i \in DOMAIN input.parts.segments : WellFormed(input.parts.segments[i])
KnownBook ==
  toLowerCase(input.parts.book) \in
    (IF input.fn = "parseReference" THEN DOMAIN BOOK_TO_NUMBER ELSE DOMAIN BOOK_TO_OSIS)

ExpectedRanges ==
  [i \in DOMAIN input.parts.segments |->
     [verseStart |-> input.parts.segments[i].start,
      verseEnd |-> input.parts.segments[i].end]]

ParseReferenceResolves ==
  /\ output # null
  /\ output.chapter = input.parts.chapter
  /\ output.ranges = ExpectedRanges

\* C9 as stated: every resolver, the OSIS one included, resolves every such
\* citation, parseReference to the chapter and one range per segment in order.
C9_EveryResolverResolves ==
  (input.fn \in {"parseReference", "referenceToOsis"} /\ InGrammar /\ KnownBook) =>
    /\ output # null
    /\ input.fn = "parseReference" => ParseReferenceResolves

\* C9 as amended: parseReference resolves every such citation to the chapter
\* as an integer and one range per segment in input order (a single verse
\* giving equal bounds); referenceToOsis resolves it only when the verse part
\* is a single segment, and fails on a verse part of several segments.
C9_MultiRangeResolverResolves ==
  /\ (input.fn = "parseReference" /\ InGrammar /\ KnownBook) => ParseReferenceResolves
  /\ (input.fn = "referenceToOsis" /\ InGrammar /\ KnownBook) =>
       (output # null <=> Len(input.parts.segments) = 1)

C9_Witness ==
  /\ input.fn = "parseReference"
  /\ input.arg = CiteMatthew
  /\ output # null
  /\ output.chapter = 6
  /\ output.ranges = << [verseStart |-> 1, verseEnd |-> 6],
                        [verseStart |-> 16, verseEnd |-> 18] >>

\* C10: every reference parseReference returns has at least one range, every
\* range with verseStart <= verseEnd, a book number of the book table, and
\* verseStart/verseEnd equal to the first range's start and the last's end.
C10_ResolvedReferenceInvariant ==
  (input.fn = "parseReference" /\ output # null) =>
    /\ Len(output.ranges) >= 1
    /\ \A i \in DOMAIN output.ranges :
         output.ranges[i].verseStart <= output.ranges[i].verseEnd
    /\ output.bookNumber.type = "number"
    /\ output.bookNumber.value \in {BOOK_TO_NUMBER[k] : k \in DOMAIN BOOK_TO_NUMBER}
    /\ output.verseStart = output.ranges[1].verseStart
    /\ output.verseEnd = output.ranges[Len(output.ranges)].verseEnd

\* No request appears twice in the log of a run.
C11_NoRepeatedRequest ==
  \A i, j \in DOMAIN netLog : netLog[i] = netLog[j] => i = j

\* A step issues at most one request, a new one, and assigns at most one new
\* entry of a result map, leaving the assigned ones as they are.
AssignsAtMostOnce(map, map2) ==
  /\ \A l \in DOMAIN map : l \in DOMAIN map2 /\ map2[l] = map[l]
  /\ Cardinality(DOMAIN map2) <= Cardinality(DOMAIN map) + 1

C11_StepAttemptsOnce ==
  /\ netLog' # netLog =>
       /\ Len(netLog') = Len(netLog) + 1
       /\ SubSeq(netLog', 1, Len(netLog)) = netLog
       /\ netLog'[Len(netLog')] \notin Range(netLog)
  /\ AssignsAtMostOnce(results, results')
  /\ AssignsAtMostOnce(impulses, impulses')

\* C11: within one run the reference source is fetched at most once, each
\* language's text at most once and each language's reflection at most once,
\* a failed attempt is not repeated, and each entry of the text-result map
\* and of the reflection-result map is assigned at most once.
C11_NoRetries ==
  /\ []C11_NoRepeatedRequest
  /\ [][C11_StepAttemptsOnce]_vars

C11_Witness ==
  /\ pc = "done"
  /\ Len(netLog) = 7
  /\ \A l \in AllLanguages : results[l] = null
  /\ impulses["de"] = null
  /\ impulses["en"] = null
  /\ impulses["pl"] # null

\* C12: in the API.Bible variant without API_BIBLE_KEY no text request is
\* issued for any language, the persisted gospelTexts is null, the reflection
\* calls are made for every language, and a run that found its citation and
\* got a reflection still ends with status 0.
C12_MissingTextKeySkipsBackend ==
  (variant = "apibible" /\ ~API_BIBLE_KEY) =>
    /\ \A l \in AllLanguages : ~RequestIssued("text", l)
    /\ results = <<>>
    /\ gospelTexts = null
    /\ \A f \in {"dated", "latest"} : ~Unwritten(f) => files[f].gospelTexts = null
    /\ gospel # null =>
         /\ pc \in {"callMagisterium", "writeDated", "writeLatest", "done"}
         /\ pc # "callMagisterium" => \A l \in AllLanguages : RequestIssued("reflection", l)
    /\ (pc = "done" /\ exitCode > 0) =>
         \/ ~API_KEY
         \/ ReferenceStageFailed
         \/ (DOMAIN impulses = AllLanguages /\ \A l \in AllLanguages : impulses[l] = null)

C12_Witness ==
  /\ variant = "apibible"
  /\ ~API_BIBLE_KEY
  /\ pc = "done"
  /\ exitCode = 0
  /\ Len(netLog) = 4
  /\ files.latest.gospelTexts = null
  /\ files.latest.impulses = impulses

\* The smallest element of a non-empty set of numbers.
Least(S) == CHOOSE x \in S : \A y \in S : x <= y

\* The citation of a document whose section opens at the first line of kind
\* "gospel" and is closed by the first later line whose kind is in closing:
\* the label of the first "link" line between the two, '' when there is none.
CitationOf(doc, closing) ==
  LET opening == {i \in DOMAIN doc : doc[i].kind = "gospel"}
      first == Least(opening)
      closers == {j \in DOMAIN doc : j > first /\ doc[j].kind \in closing}
      close == IF closers = {} THEN Len(doc) + 1 ELSE Least(closers)
      links == {k \in DOMAIN doc : first < k /\ k < close /\ doc[k].kind = "link"}
  IN IF opening = {} \/ links = {} THEN <<>> ELSE doc[Least(links)].label

\* C13 as stated: the section is left at any later level-3 heading, another
\* Gospel heading included, and only a link inside it is returned.
C13_SectionClosedByAnyHeading ==
  input.fn = "parseUsccbMarkdown" =>
    output.reference = CitationOf(input.doc, {"heading", "gospel"})

\* C13 as amended: the scanner enters the section at the first level-3
\* heading whose label starts with the word Gospel (in any case), stays in it
\* at a further Gospel heading, stops at the first later level-3 heading that
\* is not a Gospel heading, and returns the trimmed label of the first link
\* token on a line in between that is not a heading; '' when there is none.
C13_SectionClosedByOtherHeading ==
  input.fn = "parseUsccbMarkdown" =>
    output.reference = CitationOf(input.doc, {"heading"})

C13_Witness ==
  /\ input.fn = "parseUsccbMarkdown"
  /\ Len(input.doc) = 4
  /\ input.doc[1].kind = "link"
  /\ input.doc[2].kind = "gospel"
  /\ input.doc[3].kind = "gospel"
  /\ input.doc[4].kind = "link"
  /\ output.reference = input.doc[4].label

\* The citation has the form the normalizer's pattern describes: an optional
\* prefix 1-3 (a space after it or not), one book token of letters and
\* periods, white space, and a remainder that starts with a digit.
MatchesDisplayPattern(p) ==
  /\ p.prefix \in { <<>>, <<"1">>, <<"2", " ">> }
  /\ p.book # <<>>
  /\ Range(p.book) \subseteq Letters \cup {"."}
  /\ p.gap # <<>>
  /\ p.rest # <<>>
  /\ p.rest[1] \in Digits

\* The citation has the form of the supported grammar: as above, the book
\* being one token or an 'X of Y' name, the remainder Chapter:VersePart.
InCitationGrammar(p) ==
  /\ p.prefix \in { <<>>, <<"1">>, <<"2", " ">> }
  /\ p.book # <<>>
  /\ (Range(p.book) \subseteq Letters \cup {"."} \/ p.book = SongOfSongs)
  /\ p.gap # <<>>
  /\ p.rest # <<>>
  /\ p.rest[1] \in Digits
  /\ ":" \in Range(p.rest)

\* The display form has no ':' and no period in what stands before the remainder.
DisplayFormClean(p, display) ==
  /\ ":" \notin Range(display)
  /\ "." \notin Range(SubSeq(display, 1, Len(display) - Len(p.rest) - 1))

\* C14 as stated: every citation of the supported grammar, 'X of Y' books and
\* numeric prefixes included, is displayed without ':' and without a period
\* in its book token.
C14_GrammarCitationsClean ==
  (input.fn = "toGermanDisplayReference" /\ InCitationGrammar(input.parts)) =>
    DisplayFormClean(input.parts, output)

\* C14 as amended: every citation matching the normalizer's own pattern
\* (numeric prefixes included) is displayed without ':' and without a period
\* in its book token; a citation with an 'X of Y' book name does not match
\* the pattern and keeps its ':'.
C14_PatternCitationsClean ==
  input.fn = "toGermanDisplayReference" =>
    /\ MatchesDisplayPattern(input.parts) => DisplayFormClean(input.parts, output)
    /\ (input.parts.book = SongOfSongs /\ ":" \in Range(input.parts.rest)) =>
         ":" \in Range(output)

C14_Witness ==
  /\ input.fn = "toGermanDisplayReference"
  /\ input.arg = <<"2"," ","M","t","."," ","6",":","7","-","7",":","2">>
  /\ output = <<"2"," ","M","t"," ","6",",","7","-","7",",","2">>

\* s with its leading and trailing spaces dropped and every run of spaces
\* inside it reduced to its first space.
SingleSpaced(s) ==
  LET kept == Ascending({i \in DOMAIN s :
                           \/ s[i] # " "
                           \/ /\ i > 1
                              /\ s[i - 1] # " "
                              /\ \E j \in DOMAIN s : j > i /\ s[j] # " "})
  IN [k \in DOMAIN kept |-> s[kept[k]]]

\* C15 as stated: a citation that does not match the normalizer's pattern is
\* returned unchanged, character for character.
C15_UnmatchedReturnedUnchanged ==
  (input.fn = "toGermanDisplayReference" /\ ~MatchesDisplayPattern(input.parts)) =>
    output = input.arg

\* C15 as amended: a citation that does not match the normalizer's pattern is
\* returned with its white space normalized (runs collapsed to one space,
\* leading and trailing white space removed) and otherwise unchanged.
C15_UnmatchedReturnedSingleSpaced ==
  (input.fn = "toGermanDisplayReference" /\ ~MatchesDisplayPattern(input.parts)) =>
    output = SingleSpaced(input.arg)

C15_Witness ==
  /\ input.fn = "toGermanDisplayReference"
  /\ input.arg = <<" ">> \o SongOfSongs \o <<" "," ","6",":","7">>
  /\ output = SongOfSongs \o <<" ","6",":","7">>

\* The content parses to an object that has every required field.
HasRequiredFields(content) ==
  /\ content.valid
  /\ content.object.impuls.title # ""
  /\ content.object.impuls.text # ""
  /\ content.object.mitnahme.text # ""
  /\ content.object.tieferReingehen.titel # ""
  /\ content.object.tieferReingehen.text # ""

\* C16: the parser fails exactly on a content that lacks a required field, and
\* every reflection it returns has non-empty impuls.title, impuls.text,
\* mitnahme.text, tieferReingehen.titel and tieferReingehen.text and a
\* gedanken sequence of length >= 1.
C16_ReflectionInvariant ==
  input.fn = "parseImpulseJson" =>
    /\ output.threw <=> ~HasRequiredFields(input.content)
    /\ ~output.threw =>
         /\ output.value.impuls.title # ""
         /\ output.value.impuls.text # ""
         /\ output.value.mitnahme.text # ""
         /\ output.value.tieferReingehen.titel # ""
         /\ output.value.tieferReingehen.text # ""
         /\ Len(output.value.tieferReingehen.gedanken) >= 1

\* The positions of the verse part's well-formed segments, in input order.
WellFormedPositions ==
  Ascending({i \in DOMAIN input.parts.segments : WellFormed(input.parts.segments[i])})

\* C17: parseReference skips a verse segment that is neither a single verse
\* nor a verse-verse range: for a known book it returns exactly the ranges of
\* the well-formed segments, in input order, and fails on the verse part only
\* when no segment is well-formed.
C17_MalformedSegmentsSkipped ==
  (input.fn = "parseReference" /\ KnownBook) =>
    IF WellFormedPositions = <<>> THEN output = null
    ELSE /\ output # null
         /\ output.chapter = input.parts.chapter
         /\ output.ranges =
              [k \in DOMAIN WellFormedPositions |->
                 [verseStart |-> input.parts.segments[WellFormedPositions[k]].start,
                  verseEnd |-> input.parts.segments[WellFormedPositions[k]].end]]

C17_Witness ==
  /\ input.fn = "parseReference"
  /\ KnownBook
  /\ Len(input.parts.segments) = 2
  /\ input.parts.segments[1].form = "letter"
  /\ input.parts.segments[2].form = "hyphen"
  /\ output # null
  /\ output.ranges = << [verseStart |-> 16, verseEnd |-> 18] >>

====
